---- MODULE Spec2Model ----
(***************************************************************************)
(* Federated Averaging (tensorflow_federated/python/learning/              *)
(* federated_averaging.py): the client computation ClientFedAvg and the    *)
(* server computations server_init / server_update_model.                  *)
(*                                                                         *)
(* Tensors are float32 in the source.  A tensor leaf is modelled by one    *)
(* scalar of a scaled-down IEEE-754 format: the finite values are the      *)
(* integers -FMax..FMax, a finite result outside that range overflows to   *)
(* +/-Inf, and NaN is produced and propagated as IEEE-754 prescribes.      *)
(* Rounding and the sign of zero are not modelled.                         *)
(***************************************************************************)
EXTENDS Integers, Sequences, FiniteSets, TLC

\* ------------------------------------------------------------------ bounds
FMax == 16          \* largest finite magnitude of the scaled-down float
MaxRounds == 3      \* server_update_model calls explored after server_init
MaxCalls == 2       \* ClientFedAvg.__call__ invocations explored per instance
MaxBatches == 2     \* batches per dataset

\* ------------------------------------------------------ float32 arithmetic
Fin(n) == [k |-> "fin", v |-> n]
PInf == [k |-> "inf", v |-> 1]
NInf == [k |-> "inf", v |-> -1]
NaN == [k |-> "nan", v |-> 0]
Zero == Fin(0)

Sign(n) == IF n > 0 THEN 1 ELSE IF n < 0 THEN -1 ELSE 0

\* The float a real result n rounds to: overflow gives an infinity.
FNorm(n) == IF n > FMax THEN PInf ELSE IF n < -FMax THEN NInf ELSE Fin(n)

\* tf.is_finite
IsFinite(a) == a.k = "fin"

FNeg(a) == IF a.k = "nan" THEN NaN ELSE [k |-> a.k, v |-> -a.v]

FAdd(a, b) ==
  IF a.k = "nan" \/ b.k = "nan" THEN NaN
  ELSE IF a.k = "inf" /\ b.k = "inf" THEN (IF a.v = b.v THEN a ELSE NaN)
  ELSE IF a.k = "inf" THEN a
  ELSE IF b.k = "inf" THEN b
  ELSE FNorm(a.v + b.v)

\* tf.subtract
FSub(a, b) == FAdd(a, FNeg(b))

FMul(a, b) ==
  IF a.k = "nan" \/ b.k = "nan" THEN NaN
  ELSE IF a.k = "inf" \/ b.k = "inf"
       THEN (IF Sign(a.v) * Sign(b.v) = 0 THEN NaN
             ELSE [k |-> "inf", v |-> Sign(a.v) * Sign(b.v)])
  ELSE FNorm(a.v * b.v)

\* tf.zeros_like over a flat structure of leaves
ZerosLike(t) == [i \in 1..Len(t) |-> Zero]

AllZero(t) == \A i \in 1..Len(t) : t[i] = Zero
AllFinite(t) == \A i \in 1..Len(t) : IsFinite(t[i])

\* ------------------------------------------------------- server computations
\* optimizer_fn() results: tf.train.GradientDescentOptimizer(lr) and
\* tf.train.MomentumOptimizer(lr, momentum).
Optimizers ==
  { [kind |-> "sgd", lr |-> Fin(1), momentum |-> Zero],
    [kind |-> "sgd", lr |-> Fin(2), momentum |-> Zero],
    [kind |-> "momentum", lr |-> Fin(1), momentum |-> Fin(1)] }

\* The slot variables optimizer.apply_gradients creates on first use.
CreateSlots(optimizer, trainable) ==
  IF optimizer.kind = "momentum" THEN ZerosLike(trainable) ELSE << >>

\* optimizer.apply_gradients(grads_and_vars): new (vars, slots).
ApplyGradients(optimizer, grads, vars, slots) ==
  IF optimizer.kind = "momentum"
  THEN LET accum == [i \in 1..Len(vars) |->
                       FAdd(FMul(optimizer.momentum, slots[i]), grads[i])]
       IN [vars |-> [i \in 1..Len(vars) |->
                       FSub(vars[i], FMul(optimizer.lr, accum[i]))],
           slots |-> accum]
  ELSE [vars |-> [i \in 1..Len(vars) |->
                    FSub(vars[i], FMul(optimizer.lr, grads[i]))],
        slots |-> slots]

\* The gradient handed to the optimizer for one leaf of the delta.
DeltaGrad_positive(x) == x
DeltaGrad_offset(x) == FAdd(Fin(-1), x)
DeltaGrad(x) == FMul(Fin(-1), x)

\* apply_delta: feeds (-delta, var) pairs to the optimizer.
apply_delta(optimizer, delta, state) ==
  LET grads == [i \in 1..Len(delta) |-> DeltaGrad(delta[i])]
      r == ApplyGradients(optimizer, grads, state.model.trainable,
                          state.optimizer_state)
  IN [model |-> [trainable |-> r.vars,
                 non_trainable |-> state.model.non_trainable],
      optimizer_state |-> r.slots]

\* _create_optimizer_and_server_state: traces apply_delta on a zero delta so
\* that the optimizer's variables exist, and returns the ServerState holding
\* the model's and the optimizer's variables.
create_optimizer_and_server_state(model, optimizer) ==
  LET weights_delta == ZerosLike(model.trainable)
      fresh == [model |-> model,
                optimizer_state |-> CreateSlots(optimizer, model.trainable)]
  IN apply_delta(optimizer, weights_delta, fresh)

server_init(model, optimizer) ==
  create_optimizer_and_server_state(model, optimizer)

\* nest.map_structure(tf.assign, server_vars, server_state)
AssignServerVars_trainable_only(server_vars, server_state) ==
  [server_vars EXCEPT !.model.trainable = server_state.model.trainable]
AssignServerVars_optimizer_state_only(server_vars, server_state) ==
  [server_vars EXCEPT !.optimizer_state = server_state.optimizer_state]
AssignServerVars(server_vars, server_state) == server_state

SameStructure(a, b) ==
  /\ Len(a.model.trainable) = Len(b.model.trainable)
  /\ Len(a.model.non_trainable) = Len(b.model.non_trainable)
  /\ Len(a.optimizer_state) = Len(b.optimizer_state)

\* server_update_model; `model` is the value of model_fn().
server_update_model_no_assign(server_state, weights_delta, model, optimizer) ==
  apply_delta(optimizer, weights_delta,
              create_optimizer_and_server_state(model, optimizer))
server_update_model(server_state, weights_delta, model, optimizer) ==
  LET server_vars == create_optimizer_and_server_state(model, optimizer)
  IN apply_delta(optimizer, weights_delta,
                 AssignServerVars(server_vars, server_state))

\* ------------------------------------------------------- client computation
\* model.train_on_batch(batch) of the caller's model: one local gradient
\* step.  A batch carries its number of examples and the gradient it induces.
TrainOnBatch(weights, batch) ==
  [trainable |-> [i \in 1..Len(weights.trainable) |->
                    FSub(weights.trainable[i], batch.grad[i])],
   non_trainable |-> [i \in 1..Len(weights.non_trainable) |->
                        FAdd(weights.non_trainable[i], Fin(1))]]

\* The batch dataset.reduce hands to reduce_fn after `consumed` batches.
NextBatch_reversed(ds, consumed) == ds[Len(ds) - consumed]
NextBatch(ds, consumed) == ds[consumed + 1]

\* nest.map_structure(tf.subtract, model.weights.trainable,
\*                    initial_weights.trainable)
WeightsDelta_reversed(final, initial) ==
  [i \in 1..Len(final) |-> FSub(initial[i], final[i])]
WeightsDelta(final, initial) ==
  [i \in 1..Len(final) |-> FSub(final[i], initial[i])]

\* self._client_weight_fn(aggregated_outputs): the default casts the example
\* counter to float32; the custom function returns the model's batch count.
ClientWeightFn(fn, aggregated_outputs, examples) ==
  IF fn = "default" THEN Fin(examples) ELSE Fin(aggregated_outputs)

\* tensor_utils.zero_all_if_any_non_finite
zero_all_if_any_non_finite(structure) ==
  IF AllFinite(structure)
  THEN [structure |-> structure, flag |-> 0]
  ELSE [structure |-> ZerosLike(structure), flag |-> 1]

\* tf.cond(tf.equal(has_non_finite_delta, 0), weight, 0.0)
GuardedWeight_unguarded(has_non_finite_delta, weight) == weight
GuardedWeight(has_non_finite_delta, weight) ==
  IF has_non_finite_delta = 0 THEN weight ELSE Zero

\* The ClientOutput __call__ builds once the dataset has been reduced.
ClientOutput(fn, final, initial, aggregated_outputs, examples) ==
  LET weights_delta == WeightsDelta(final.trainable, initial.trainable)
      weights_delta_weight == ClientWeightFn(fn, aggregated_outputs, examples)
      z == zero_all_if_any_non_finite(weights_delta)
  IN [weights_delta |-> z.structure,
      weight |-> GuardedWeight(z.flag, weights_delta_weight),
      aggregated_outputs |-> aggregated_outputs,
      num_examples |-> examples,
      has_non_finite_delta |-> z.flag]

\* ---------------------------------------------------------------- state
VARIABLES
  optimizer,       \* the optimizer optimizer_fn() constructs
  server_state,    \* the ServerState carried between rounds
  calls,           \* server_update_model calls since server_init:
                   \*   [in, delta, fresh, out]
  client_weight_fn,\* "default" or "custom": ClientFedAvg's constructor argument
  num_examples,    \* self._num_examples (tf.Variable, int32)
  model_weights,   \* self._model.weights (the model's variables)
  model_batches,   \* the model's metric variable read by aggregated_outputs()
  pc,              \* position of __call__: "idle", "reduce" or "done"
  ncalls,          \* __call__ invocations started on this instance
  dataset,         \* the dataset argument of the current call
  initial_weights, \* the initial_weights argument of the current call
  pos,             \* batches of the dataset consumed by dataset.reduce
  train_log,       \* train_on_batch invocations of the current call
  output           \* << >> or <<the ClientOutput returned>>

client_vars == <<client_weight_fn, num_examples, model_weights, model_batches,
                 pc, ncalls, dataset, initial_weights, pos, train_log, output>>
vars == <<optimizer, server_state, calls, client_weight_fn, num_examples,
          model_weights, model_batches, pc, ncalls, dataset, initial_weights,
          pos, train_log, output>>

ModelWeights(t1, t2, n) ==
  [trainable |-> <<t1, t2>>, non_trainable |-> <<n>>]

\* Values model_fn() can construct (freshly initialised model variables).
ModelInits ==
  { ModelWeights(Fin(10), Zero, Zero),
    ModelWeights(Fin(-FMax), Fin(1), Fin(3)) }

\* Aggregated deltas handed to server_update_model.
ServerDeltas ==
  { <<Zero, Zero>>, <<Fin(-1), Fin(1)>>, <<Fin(FMax), Fin(FMax)>>,
    <<Fin(1), NaN>>, <<PInf, Fin(-2)>> }

\* --------------------------------------------------------- server actions
ClientIdle ==
  /\ client_weight_fn = "default"
  /\ num_examples = 0
  /\ model_weights = ModelWeights(Zero, Zero, Zero)
  /\ model_batches = 0
  /\ pc = "idle"
  /\ ncalls = 0
  /\ dataset = << >>
  /\ initial_weights = ModelWeights(Zero, Zero, Zero)
  /\ pos = 0
  /\ train_log = << >>
  /\ output = << >>

InitServer ==
  /\ optimizer \in Optimizers
  /\ \E m \in ModelInits : server_state = server_init(m, optimizer)
  /\ calls = << >>
  /\ ClientIdle

\* server_init(model_fn, optimizer_fn): a new initial ServerState.
ServerInit ==
  /\ calls # << >>
  /\ \E m \in ModelInits : server_state' = server_init(m, optimizer)
  /\ calls' = << >>
  /\ UNCHANGED <<optimizer, client_vars>>

\* server_update_model(server_state, weights_delta, model_fn, optimizer_fn)
ServerUpdate ==
  /\ Len(calls) < MaxRounds
  /\ \E d \in ServerDeltas, m \in ModelInits :
       /\ Len(d) = Len(server_state.model.trainable)
       /\ SameStructure(create_optimizer_and_server_state(m, optimizer),
                        server_state)
       /\ server_state' = server_update_model(server_state, d, m, optimizer)
       /\ calls' = Append(calls, [in |-> server_state, delta |-> d,
                                  fresh |-> m, out |-> server_state'])
  /\ UNCHANGED <<optimizer, client_vars>>

NextServer == ServerInit \/ ServerUpdate

SpecServer == InitServer /\ [][NextServer]_vars

\* ------------------------------------------------------ server properties
IsSgd == optimizer.kind = "sgd"

VAdd(d1, d2) == [i \in 1..Len(d1) |-> FAdd(d1[i], d2[i])]

\* An operation on finite operands whose result is not finite has overflowed.
Overflows(a, b, r) == IsFinite(a) /\ IsFinite(b) /\ ~IsFinite(r)

\* No float operation overflows when leaf w is moved by d1 and then d2, nor
\* when it is moved by d1 + d2 in one step, under learning rate lr.
ExactLeaf(lr, w, d1, d2) ==
  LET s1 == FMul(lr, DeltaGrad(d1))
      w1 == FSub(w, s1)
      s2 == FMul(lr, DeltaGrad(d2))
      d12 == FAdd(d1, d2)
      s12 == FMul(lr, DeltaGrad(d12))
  IN /\ ~Overflows(lr, d1, s1)
     /\ ~Overflows(w, s1, w1)
     /\ ~Overflows(lr, d2, s2)
     /\ ~Overflows(w1, s2, FSub(w1, s2))
     /\ ~Overflows(d1, d2, d12)
     /\ ~Overflows(lr, d12, s12)
     /\ ~Overflows(w, s12, FSub(w, s12))

ExactPair(i) ==
  \A j \in 1..Len(calls[i].delta) :
    ExactLeaf(optimizer.lr, calls[i].in.model.trainable[j],
              calls[i].delta[j], calls[i + 1].delta[j])

\* The model one call with delta d1 + d2 yields from the state call i began in.
OneStepModel(i) ==
  server_update_model(calls[i].in, VAdd(calls[i].delta, calls[i + 1].delta),
                      calls[i].fresh, optimizer).model

\* C2 (as stated): under plain gradient descent, server_update_model with d1
\* and then with d2 yields the same model weights as one call with d1 + d2,
\* for every state and every pair of deltas.
C2_TwoStepsEqualOneStep ==
  IsSgd => \A i \in 1..(Len(calls) - 1) : calls[i + 1].out.model = OneStepModel(i)

\* C2 (amended): under plain gradient descent, the two-step and the one-step
\* results agree whenever no float operation involved overflows.
C2_TwoStepsEqualOneStepWhenExact ==
  IsSgd => \A i \in 1..(Len(calls) - 1) :
             ExactPair(i) => calls[i + 1].out.model = OneStepModel(i)

C2_Witness ==
  /\ IsSgd
  /\ Len(calls) >= 2
  /\ ExactPair(1)
  /\ ~AllZero(calls[1].delta)
  /\ ~AllZero(calls[2].delta)
  /\ calls[2].out.model = OneStepModel(1)
  /\ calls[2].out.model # calls[1].in.model

C4_ZeroDeltaKeepsModel ==
  \A i \in 1..Len(calls) :
    AllZero(calls[i].delta) => calls[i].out.model = calls[i].in.model

\* C4 (amended): from every reachable ServerState, under plain gradient
\* descent, or under momentum when the accumulators of the state are all
\* zero, server_update_model with an all-zero delta leaves the model weights
\* as they were.
C4_ZeroDeltaKeepsModelWithoutMomentum ==
  \A i \in 1..Len(calls) :
    (/\ AllZero(calls[i].delta)
     /\ \/ IsSgd
        \/ (optimizer.kind = "momentum"
              /\ AllZero(calls[i].in.optimizer_state)))
      => calls[i].out.model = calls[i].in.model

C4_Witness ==
  /\ IsSgd
  /\ Len(calls) >= 2
  /\ ~AllZero(calls[1].delta)
  /\ AllZero(calls[2].delta)
  /\ calls[2].in.model # calls[2].fresh
  /\ calls[2].out.model = calls[2].in.model

\* C5: under plain gradient descent with learning rate 1 every trainable leaf
\* of the returned model is the previous value plus the leaf of weights_delta.
C5_SgdAddsDelta ==
  (IsSgd /\ optimizer.lr = Fin(1))
    => \A i \in 1..Len(calls) : \A j \in 1..Len(calls[i].delta) :
         calls[i].out.model.trainable[j]
           = FAdd(calls[i].in.model.trainable[j], calls[i].delta[j])

\* previous weight 1.0, delta -0.1, new weight 0.9 (in units of 0.1)
C5_Witness ==
  /\ IsSgd
  /\ optimizer.lr = Fin(1)
  /\ Len(calls) >= 1
  /\ calls[1].in.model.trainable[1] = Fin(10)
  /\ calls[1].delta[1] = Fin(-1)
  /\ calls[1].out.model.trainable[1] = Fin(9)

\* C8: the state server_update_model returns is a function of server_state
\* and weights_delta only: it is the same for every value of model_fn(), and
\* calls with equal arguments return equal states.
C8_UpdateDependsOnArgumentsOnly ==
  /\ \A i \in 1..Len(calls) : \A m \in ModelInits :
       server_update_model(calls[i].in, calls[i].delta, m, optimizer)
         = calls[i].out
  /\ \A i, j \in 1..Len(calls) :
       (calls[i].in = calls[j].in /\ calls[i].delta = calls[j].delta)
         => calls[i].out = calls[j].out

C8_Witness ==
  /\ Len(calls) >= 2
  /\ calls[1].in = calls[2].in
  /\ calls[1].delta = calls[2].delta
  /\ calls[1].fresh # calls[2].fresh
  /\ calls[1].out = calls[2].out

\* --------------------------------------------------------- client actions
\* Batches a client's dataset is made of; the third one makes the local
\* training step produce a NaN.
Batches ==
  { [size |-> 1, grad |-> <<Fin(1), Fin(-2)>>],
    [size |-> 2, grad |-> <<Fin(FMax), Zero>>],
    [size |-> 2, grad |-> <<NaN, Fin(1)>>] }

Datasets == UNION { [1..n -> Batches] : n \in 0..MaxBatches }

\* Broadcast weights a call starts from.
InitialWeights ==
  { ModelWeights(Fin(10), Zero, Zero),
    ModelWeights(Fin(FMax), Fin(1), Fin(3)),
    ModelWeights(PInf, Zero, Zero) }

\* ClientFedAvg.__init__
InitClient ==
  /\ client_weight_fn \in {"default", "custom"}
  /\ num_examples = 0
  /\ model_weights \in ModelInits
  /\ model_batches = 0
  /\ pc = "idle"
  /\ ncalls = 0
  /\ dataset = << >>
  /\ initial_weights = model_weights
  /\ pos = 0
  /\ train_log = << >>
  /\ output = << >>
  /\ optimizer = [kind |-> "sgd", lr |-> Fin(1), momentum |-> Zero]
  /\ server_state = server_init(model_weights, optimizer)
  /\ calls = << >>

\* __call__ entry: the initial weights are assigned to the model's variables.
CallBegin ==
  /\ pc \in {"idle", "done"}
  /\ ncalls < MaxCalls
  /\ \E ds \in Datasets, iw \in InitialWeights :
       /\ dataset' = ds
       /\ initial_weights' = iw
       /\ model_weights' = iw
  /\ pos' = 0
  /\ train_log' = << >>
  /\ output' = << >>
  /\ pc' = "reduce"
  /\ ncalls' = ncalls + 1
  /\ UNCHANGED <<client_weight_fn, num_examples, model_batches,
                 optimizer, server_state, calls>>

\* reduce_fn on the next batch of the dataset.
ReduceStep ==
  /\ pc = "reduce"
  /\ pos < Len(dataset)
  /\ LET batch == NextBatch(dataset, pos)
     IN /\ model_weights' = TrainOnBatch(model_weights, batch)
        /\ model_batches' = model_batches + 1
        /\ num_examples' = num_examples + batch.size
        /\ train_log' = Append(train_log, [batch |-> batch,
                                           before |-> model_weights,
                                           after |-> model_weights'])
  /\ pos' = pos + 1
  /\ UNCHANGED <<client_weight_fn, pc, ncalls, dataset, initial_weights,
                 output, optimizer, server_state, calls>>

\* The rest of __call__ after dataset.reduce: delta, weight, guard, result.
CallFinish ==
  /\ pc = "reduce"
  /\ pos = Len(dataset)
  /\ output' = << ClientOutput(client_weight_fn, model_weights,
                               initial_weights, model_batches, num_examples) >>
  /\ pc' = "done"
  /\ UNCHANGED <<client_weight_fn, num_examples, model_weights, model_batches,
                 ncalls, dataset, initial_weights, pos, train_log,
                 optimizer, server_state, calls>>

NextClient == CallBegin \/ ReduceStep \/ CallFinish

SpecClient == InitClient /\ [][NextClient]_vars

\* ------------------------------------------------------ client properties
Returned == pc = "done" /\ output # << >>

\* Post-training trainable weights minus the initial trainable weights.
RawDelta ==
  [i \in 1..Len(initial_weights.trainable) |->
     FSub(model_weights.trainable[i], initial_weights.trainable[i])]

RECURSIVE SumSizes(_)
SumSizes(ds) == IF ds = << >> THEN 0 ELSE Head(ds).size + SumSizes(Tail(ds))

\* C1: when a leaf of the raw delta is NaN or infinite, the ClientOutput has
\* has_non_finite_delta set, weight 0 (default or custom weight function) and
\* every leaf of weights_delta zero.
C1_NonFiniteDeltaIsZeroed ==
  (Returned /\ ~AllFinite(RawDelta))
    => /\ output[1].has_non_finite_delta = 1
       /\ output[1].weight = Zero
       /\ AllZero(output[1].weights_delta)

C1_Witness ==
  /\ Returned
  /\ ~AllFinite(RawDelta)
  /\ \E i \in 1..Len(RawDelta) : IsFinite(RawDelta[i]) /\ RawDelta[i] # Zero
  /\ client_weight_fn = "custom"
  /\ model_batches > 0
  /\ output[1].has_non_finite_delta = 1
  /\ AllZero(output[1].weights_delta)

\* C6: a call whose dataset has no batch, also on an instance that has
\* processed other datasets, returns num_examples 0, weight 0 under the
\* default weight function, and an all-zero weights_delta.
C6_EmptyDatasetReportsZero ==
  (Returned /\ dataset = << >>)
    => /\ output[1].num_examples = 0
       /\ (client_weight_fn = "default" => output[1].weight = Zero)
       /\ AllZero(output[1].weights_delta)

\* C7: the num_examples a call reports, and the default weight derived from
\* it, is the sum of the batch sizes of that call's dataset only.
C7_CounterIsPerCall ==
  Returned
    => /\ output[1].num_examples = SumSizes(dataset)
       /\ (client_weight_fn = "default" /\ output[1].has_non_finite_delta = 0)
            => output[1].weight = Fin(SumSizes(dataset))

\* C9: train_on_batch runs once per batch in dataset order, each run from
\* the weights the previous one left (the first from initial_weights), and
\* the ClientOutput exists only after the last batch.
C9_StrictLeftFold ==
  /\ Len(train_log) = pos
  /\ pos <= Len(dataset)
  /\ \A i \in 1..Len(train_log) :
       /\ train_log[i].batch = dataset[i]
       /\ train_log[i].before =
            (IF i = 1 THEN initial_weights ELSE train_log[i - 1].after)
  /\ (pc # "idle" /\ train_log = << >>) => model_weights = initial_weights
  /\ train_log # << >> => model_weights = train_log[Len(train_log)].after
  /\ output # << >> => (pc = "done" /\ pos = Len(dataset))
  /\ Returned =>
       output[1].weights_delta
         = zero_all_if_any_non_finite(RawDelta).structure

C9_Witness ==
  /\ Returned
  /\ Len(dataset) = 2
  /\ dataset[1] # dataset[2]
  /\ Len(train_log) = 2
  /\ train_log[2].before = train_log[1].after
  /\ train_log[1].after # train_log[1].before

\* C10: when every leaf of the raw delta is finite the guard changes nothing:
\* the flag is 0, weights_delta is the raw delta and the weight is
\* client_weight_fn(aggregated_outputs), by default the example counter.
C10_FiniteDeltaPassesThrough ==
  (Returned /\ AllFinite(RawDelta))
    => /\ output[1].has_non_finite_delta = 0
       /\ output[1].weights_delta = RawDelta
       /\ output[1].weight
            = ClientWeightFn(client_weight_fn, output[1].aggregated_outputs,
                             num_examples)
       /\ (client_weight_fn = "default"
             => output[1].weight = Fin(output[1].num_examples))

C10_Witness ==
  /\ Returned
  /\ AllFinite(RawDelta)
  /\ ~AllZero(RawDelta)
  /\ output[1].weights_delta = RawDelta
  /\ output[1].weight # Zero
====
